---------------------------- MODULE Spec2Model ----------------------------
(***************************************************************************)
(* A model of tvm-financejs (src/index.js): the closed-form annuity        *)
(* formulas PV, NPER, PMT, FV, IPMT, PPMT, NPV and the two secant solvers   *)
(* IRR and RATE with their residual evaluators.                            *)
(*                                                                         *)
(* JavaScript numbers are IEEE-754 binary64.  They are modelled here as    *)
(* sign * m * 2^e with a 53-bit significand m, and +, -, *, / round to     *)
(* nearest, ties to even, as the hardware does, so a run of the model      *)
(* follows the same trajectory as the code.  Not modelled: the exponent    *)
(* range (no overflow to Infinity, no subnormals) and the sign of zero.    *)
(* Math.pow is computed for integer exponents, by repeated multiplication; *)
(* a power with another exponent and a logarithm are numbers whose value   *)
(* is not computed.                                                        *)
(***************************************************************************)
EXTENDS Integers, Sequences, FiniteSets, TLC

(***************************************************************************)
(* Natural numbers of any size: little-endian sequences of 14-bit limbs    *)
(* without a leading zero limb; <<>> is 0.  TLC's integers are 32 bits.    *)
(* The operations take their intermediate results as parameters and        *)
(* resolve carries by lookahead instead of recursion over the limbs.       *)
(***************************************************************************)
LimbBits == 14

LimbBase == 2^LimbBits

Min(x, y) == IF x < y THEN x ELSE y

Max(x, y) == IF x > y THEN x ELSE y

\* a without its leading zero limbs
BTrim(a) ==
  SubSeq(a, 1, Cardinality({k \in 1 .. Len(a) : \E j \in k .. Len(a) : a[j] # 0}))

BDigit(a, k) == IF k >= 1 /\ k <= Len(a) THEN a[k] ELSE 0

\* for 0 <= n < 2^31
BFromInt(n) ==
  BTrim(<<n % LimbBase, (n \div LimbBase) % LimbBase,
          n \div (LimbBase * LimbBase)>>)

\* for a < 2^31
BToInt(a) ==
  BDigit(a, 1) + LimbBase * BDigit(a, 2) + LimbBase * LimbBase * BDigit(a, 3)

\* whether there is a carry into limb k when the limbs of s, each at most
\* 2 * LimbBase - 2, are brought below LimbBase
Carry(s, k) ==
  \E j \in 1 .. k - 1 :
     s[j] >= LimbBase /\ \A l \in j + 1 .. k - 1 : s[l] = LimbBase - 1

BCarried(s) ==
  BTrim([k \in 1 .. Len(s) |->
           (s[k] + (IF Carry(s, k) THEN 1 ELSE 0)) % LimbBase])

BAdd(a, b) ==
  BCarried([k \in 1 .. Max(Len(a), Len(b)) + 1 |-> BDigit(a, k) + BDigit(b, k)])

\* whether limb k lends to the limbs below it, in the limb differences d
Borrow(d, k) ==
  \E j \in 1 .. k - 1 : d[j] < 0 /\ \A l \in j + 1 .. k - 1 : d[l] = 0

BBorrowed(d) ==
  BTrim([k \in 1 .. Len(d) |->
           (d[k] - (IF Borrow(d, k) THEN 1 ELSE 0) + LimbBase) % LimbBase])

\* a - b for a >= b
BSub(a, b) == BBorrowed([k \in 1 .. Len(a) |-> a[k] - BDigit(b, k)])

\* -1, 0, 1 as a < b, a = b, a > b
BCmp(a, b) ==
  IF Len(a) # Len(b) THEN (IF Len(a) < Len(b) THEN -1 ELSE 1)
  ELSE IF a = b THEN 0
  ELSE IF \E k \in 1 .. Len(a) :
            a[k] < b[k] /\ \A j \in k + 1 .. Len(a) : a[j] = b[j]
       THEN -1 ELSE 1

\* a * s for 0 <= s <= LimbBase: the low half of each limb product and the
\* high half of the one below
BMulSmall(a, s) ==
  BCarried([k \in 1 .. Len(a) + 1 |->
              ((BDigit(a, k) * s) % LimbBase)
              + ((BDigit(a, k - 1) * s) \div LimbBase)])

\* the sum of the limb products of a and b that weigh LimbBase^(k - 1), for
\* an a of at most 4 limbs: it stays below 2^31
BMulCol(a, b, k) ==
  BDigit(a, 1) * BDigit(b, k) + BDigit(a, 2) * BDigit(b, k - 1)
  + BDigit(a, 3) * BDigit(b, k - 2) + BDigit(a, 4) * BDigit(b, k - 3)

\* a * b for an a of at most 4 limbs
BMul(a, b) ==
  BAdd(BCarried([k \in 1 .. Len(a) + Len(b) |->
                   (BMulCol(a, b, k) % LimbBase)
                   + ((BMulCol(a, b, k - 1) \div LimbBase) % LimbBase)]),
       <<0, 0>> \o [k \in 1 .. Len(a) + Len(b) - 2 |->
                      BMulCol(a, b, k) \div (LimbBase * LimbBase)])

\* the number of bits of x, 0 <= x < LimbBase
SmallBitLen(x) == Cardinality({k \in 0 .. LimbBits - 1 : 2^k <= x})

BitLen(a) ==
  IF a = <<>> THEN 0 ELSE LimbBits * (Len(a) - 1) + SmallBitLen(a[Len(a)])

\* a * 2^k
BShl(a, k) ==
  IF a = <<>> THEN a
  ELSE [j \in 1 .. k \div LimbBits |-> 0] \o BMulSmall(a, 2^(k % LimbBits))

\* a without its n low limbs and the r low bits above them, and whether a
\* bit was dropped
BShrBy(a, n, r) ==
  [q  |-> BTrim([j \in 1 .. Len(a) - n |->
                   (a[n + j] \div 2^r)
                   + (BDigit(a, n + j + 1) % 2^r) * 2^(LimbBits - r)]),
   st |-> \/ \E j \in 1 .. Len(a) : j <= n /\ a[j] # 0
          \/ BDigit(a, n + 1) % 2^r # 0]

\* a \div 2^k, and whether a bit was shifted out
BShr(a, k) == BShrBy(a, k \div LimbBits, k % LimbBits)

(***************************************************************************)
(* Long division.  BDivDigit gives the quotient digit and the remainder of *)
(* r * LimbBase + x by d, for r < d, 0 <= x < LimbBase and a d whose top   *)
(* limb is at least LimbBase / 2: the estimate from the top limbs is then  *)
(* at most 2 too large.                                                    *)
(***************************************************************************)
BDivRem(rB, d, q) == [q |-> q, r |-> BSub(rB, BMulSmall(d, q))]

BDivFix(rB, d, q0) ==
  BDivRem(rB, d,
          IF BCmp(BMulSmall(d, q0), rB) <= 0 THEN q0
          ELSE IF BCmp(BMulSmall(d, q0 - 1), rB) <= 0 THEN q0 - 1
          ELSE q0 - 2)

BDivEst(rB, d) ==
  BDivFix(rB, d,
          Min((BDigit(rB, Len(d) + 1) * LimbBase + BDigit(rB, Len(d)))
                \div d[Len(d)],
              LimbBase - 1))

BDivDigit(r, x, d) == BDivEst(BTrim(<<x>> \o r), d)

RECURSIVE BDivDigits(_, _, _, _)
\* n more digits of the quotient of r * LimbBase^n by d after the digits q,
\* and whether there is a remainder
BDivNext(s, d, n, q) == BDivDigits(s.r, d, n - 1, <<s.q>> \o q)

BDivDigits(r, d, n, q) ==
  IF r = <<>> THEN [q |-> BTrim([k \in 1 .. n |-> 0] \o q), st |-> FALSE]
  ELSE IF n = 0 THEN [q |-> BTrim(q), st |-> TRUE]
  ELSE BDivNext(BDivDigit(r, 0, d), d, n, q)

(***************************************************************************)
(* JavaScript values.  A number is [k |-> "fin", s, m, e] = s * m * 2^e    *)
(* with s in {-1, 0, 1} and 2^52 <= m < 2^53 (m = <<>>, e = 0 for zero),   *)
(* or k = "inf" (s its sign) or k = "nan", or k = "num": a number whose    *)
(* value is not computed (a logarithm, a power with an exponent that is    *)
(* not an integer, and what is computed from one), which the program does  *)
(* not compare in the runs of this model.  Strings, null and undefined are *)
(* values of the same shape, so that any two values compare.               *)
(***************************************************************************)
Precision == 53

Fin(s, m, e) == [k |-> "fin", s |-> s, m |-> m, e |-> e, t |-> ""]

Zero == Fin(0, <<>>, 0)

NaN == [k |-> "nan", s |-> 0, m |-> <<>>, e |-> 0, t |-> ""]

Inf(s) == [k |-> "inf", s |-> s, m |-> <<>>, e |-> 0, t |-> ""]

Num == [k |-> "num", s |-> 0, m |-> <<>>, e |-> 0, t |-> ""]

Str(t) == [k |-> "str", s |-> 0, m |-> <<>>, e |-> 0, t |-> t]

Null == [k |-> "null", s |-> 0, m |-> <<>>, e |-> 0, t |-> ""]

Undefined == [k |-> "undefined", s |-> 0, m |-> <<>>, e |-> 0, t |-> ""]

\* typeof v === "undefined", the test the optional parameters are read by
Default(v, d) == IF v.k = "undefined" THEN d ELSE v

IsNumber(v) == v.k \in {"fin", "inf", "nan", "num"}

IsString(v) == v.k = "str"

\* ToNumber of an operand of an arithmetic operator
ToNumber(v) ==
  IF v.k \in {"fin", "inf", "nan", "num"} THEN v
  ELSE IF v.k = "null" THEN Zero ELSE NaN

\* s * M * 2^e for a natural M > 0, rounded to nearest, ties to even:
\* sh is M without the bits below the rounding bit, q without that bit too
Renorm(s, m, e) ==
  IF BitLen(m) > Precision THEN Fin(s, BShr(m, 1).q, e + 1) ELSE Fin(s, m, e)

RoundUp(s, q, rbit, st, e) ==
  Renorm(s, IF rbit /\ (st \/ q[1] % 2 = 1) THEN BAdd(q, <<1>>) ELSE q, e)

RoundHalf(s, sh, e) ==
  RoundUp(s, BShr(sh.q, 1).q, sh.q[1] % 2 = 1, sh.st, e)

RoundTo(s, M, e, k) ==
  IF k <= 0 THEN Fin(s, BShl(M, -k), e + k)
  ELSE RoundHalf(s, BShr(M, k - 1), e + k)

Round(s, M, e) == RoundTo(s, M, e, BitLen(M) - Precision)

FromInt(n) ==
  IF n = 0 THEN Zero
  ELSE Round(IF n < 0 THEN -1 ELSE 1, BFromInt(IF n < 0 THEN -n ELSE n), 0)

FNeg(a) ==
  IF a.k = "nan" THEN a ELSE [a EXCEPT !.s = -a.s]

FAbs(a) ==
  IF a.k = "nan" THEN a ELSE [a EXCEPT !.s = IF a.s = 0 THEN 0 ELSE 1]

\* the sum of two finite nonzero numbers, a.e >= b.e; A is a.m aligned to
\* b.m and c their comparison
SubMags(a, b, A, c) ==
  IF c = 0 THEN Zero
  ELSE Round(IF c > 0 THEN a.s ELSE b.s,
             IF c > 0 THEN BSub(A, b.m) ELSE BSub(b.m, A), b.e)

AddMags(a, b, A) ==
  IF a.s = b.s THEN Round(a.s, BAdd(A, b.m), b.e)
  ELSE SubMags(a, b, A, BCmp(A, b.m))

AddAligned(a, b) ==
  IF a.e - b.e > 64 THEN a ELSE AddMags(a, b, BShl(a.m, a.e - b.e))

FAddN(a, b) ==
  IF a.k = "nan" \/ b.k = "nan" THEN NaN
  ELSE IF a.k = "num" \/ b.k = "num" THEN Num
  ELSE IF a.k = "inf" /\ b.k = "inf" THEN (IF a.s = b.s THEN a ELSE NaN)
  ELSE IF a.k = "inf" THEN a
  ELSE IF b.k = "inf" THEN b
  ELSE IF a.s = 0 THEN b
  ELSE IF b.s = 0 THEN a
  ELSE AddAligned(IF a.e >= b.e THEN a ELSE b, IF a.e >= b.e THEN b ELSE a)

FMulN(a, b) ==
  IF a.k = "nan" \/ b.k = "nan" THEN NaN
  ELSE IF a.k = "num" \/ b.k = "num" THEN Num
  ELSE IF a.k = "inf" \/ b.k = "inf"
       THEN (IF a.s * b.s = 0 THEN NaN ELSE Inf(a.s * b.s))
  ELSE IF a.s = 0 \/ b.s = 0 THEN Zero
  ELSE Round(a.s * b.s, BMul(a.m, b.m), a.e + b.e)

\* d is the quotient of a.m * 2^55 by b.m, with the rest as a sticky bit
FDivQ(s, d, e) ==
  IF d.st THEN Round(s, BAdd(BShl(d.q, 1), <<1>>), e) ELSE Round(s, d.q, e + 1)

FDivN(a, b) ==
  IF a.k = "nan" \/ b.k = "nan" THEN NaN
  ELSE IF a.k = "num" \/ b.k = "num" THEN Num
  ELSE IF a.k = "inf" THEN (IF b.k = "inf" THEN NaN
                            ELSE Inf(IF b.s < 0 THEN -a.s ELSE a.s))
  ELSE IF b.k = "inf" THEN Zero
  ELSE IF b.s = 0 THEN (IF a.s = 0 THEN NaN ELSE Inf(a.s))
  ELSE IF a.s = 0 THEN Zero
  ELSE FDivQ(a.s * b.s, BDivDigits(BShl(a.m, 2), BShl(b.m, 3), 4, <<>>),
             a.e - b.e - 4 * LimbBits)

\* the binary operators +, -, *, / of the language
FAdd(a, b) == FAddN(ToNumber(a), ToNumber(b))

FSub(a, b) == FAddN(ToNumber(a), FNeg(ToNumber(b)))

FMul(a, b) == FMulN(ToNumber(a), ToNumber(b))

FDiv(a, b) == FDivN(ToNumber(a), ToNumber(b))

\* -1, 0, 1 as a < b, a = b, a > b, for numbers other than NaN
FCmp(a, b) ==
  IF a.s # b.s THEN (IF a.s < b.s THEN -1 ELSE 1)
  ELSE IF a.s = 0 THEN 0
  ELSE IF a.k = "inf" \/ b.k = "inf"
       THEN (IF a.k = b.k THEN 0
             ELSE IF a.k = "inf" THEN a.s ELSE -a.s)
  ELSE IF a.e # b.e THEN (IF a.e < b.e THEN -a.s ELSE a.s)
  ELSE a.s * BCmp(a.m, b.m)

Ordered(a, b) ==
  ToNumber(a).k \in {"fin", "inf"} /\ ToNumber(b).k \in {"fin", "inf"}

\* the relational operators <, <=, >, >= of the language
FLt(a, b) == Ordered(a, b) /\ FCmp(ToNumber(a), ToNumber(b)) < 0

FLe(a, b) == Ordered(a, b) /\ FCmp(ToNumber(a), ToNumber(b)) <= 0

FGt(a, b) == FLt(b, a)

FGe(a, b) == FLe(b, a)

\* the operator === (and !== its negation): no conversion of the operands
StrictEq(a, b) == a.k # "nan" /\ a = b

\* the decimal literal n / 10^k, as the language reads it
Dec(n, k) == FDivN(FromInt(n), FromInt(10^k))

One == FromInt(1)

\* whether the number a is an integer below 2^30 in magnitude, and |a| then
IntValue(a) ==
  IF a.k = "fin" /\ a.s = 0 THEN [ok |-> TRUE, n |-> 0]
  ELSE IF a.k # "fin" \/ a.e > 0 \/ a.e + Precision > 30
       THEN [ok |-> FALSE, n |-> 0]
  ELSE [ok |-> ~BShr(a.m, -a.e).st, n |-> BToInt(BShr(a.m, -a.e).q)]

RECURSIVE PowInt(_, _)
PowInt(b, n) == IF n = 0 THEN One ELSE FMulN(PowInt(b, n - 1), b)

\* Math.pow(base, y): by repeated multiplication for an integer y, not
\* computed otherwise
PowBy(b, y, h) ==
  IF y.k = "nan" THEN NaN
  ELSE IF ~h.ok THEN Num
  ELSE IF h.n = 0 THEN One
  ELSE IF y.s < 0 THEN FDivN(One, PowInt(b, h.n)) ELSE PowInt(b, h.n)

MathPow(base, y) == PowBy(ToNumber(base), ToNumber(y), IntValue(ToNumber(y)))

\* Math.log(v), not computed where it is a finite number other than 0
MathLog(v) ==
  IF ToNumber(v).k \in {"nan", "num"} THEN ToNumber(v)
  ELSE IF ToNumber(v).s < 0 THEN NaN
  ELSE IF ToNumber(v).s = 0 THEN Inf(-1)
  ELSE IF ToNumber(v).k = "inf" THEN ToNumber(v)
  ELSE IF ToNumber(v) = One THEN Zero
  ELSE Num

(***************************************************************************)
(* The functions of Finance.prototype, statement by statement.             *)
(***************************************************************************)
PV(rate, nper, pmt, fv0, type0) ==
  LET type == Default(type0, Zero)
      fv   == Default(fv0, Zero)
      tempVar  == IF ~StrictEq(type, Zero) THEN FAdd(One, rate) ELSE One
      tempVar2 == FAdd(One, rate)
      tempVar3 == MathPow(tempVar2, nper)
  IN  IF StrictEq(rate, Zero)
      THEN FSub(FMul(FNeg(pmt), nper), fv)
      ELSE FDiv(FNeg(FAdd(fv, FMul(FMul(pmt, tempVar),
                                   FDiv(FSub(tempVar3, One), rate)))),
                tempVar3)

\* NPER's tempVar, for a rate other than 0
NPERTempVar(rate, pmt, type0) ==
  IF ~StrictEq(Default(type0, Zero), Zero)
  THEN FDiv(FMul(pmt, FAdd(One, rate)), rate)
  ELSE FDiv(pmt, rate)

NPERTempVarFV(rate, pmt, fv0, type0) ==
  FAdd(FNeg(Default(fv0, Zero)), NPERTempVar(rate, pmt, type0))

NPERTempVarPV(rate, pmt, pv, type0) ==
  FAdd(pv, NPERTempVar(rate, pmt, type0))

\* a variant of NPERCannotCalculate that is true when exactly one of the two
\* is at most 0
NPERExactlyOne(tempVarFV, tempVarPV) ==
  FLe(tempVarFV, Zero) # FLe(tempVarPV, Zero)

\* NPER's second test of tempVarFV and tempVarPV, made when they are not
\* both negative
NPERCannotCalculate(tempVarFV, tempVarPV) ==
  FLe(tempVarFV, Zero) \/ FLe(tempVarPV, Zero)

\* NPER from the test of tempVarFV and tempVarPV on
NPERByLog(tempVarFV, tempVarPV, tempVar2) ==
  IF FLt(tempVarFV, Zero) /\ FLt(tempVarPV, Zero)
  THEN FDiv(FSub(MathLog(FMul(tempVarFV, FromInt(-1))),
                 MathLog(FMul(tempVarPV, FromInt(-1)))),
            MathLog(tempVar2))
  ELSE IF NPERCannotCalculate(tempVarFV, tempVarPV)
       THEN Str("Error - Cannot Calculate NPER")
  ELSE FDiv(FSub(MathLog(tempVarFV), MathLog(tempVarPV)), MathLog(tempVar2))

NPER(rate, pmt, pv, fv0, type0) ==
  IF StrictEq(rate, Zero)
  THEN IF StrictEq(pmt, Zero)
       THEN Str("Error - Payment cannot be 0")
       ELSE FDiv(FNeg(FAdd(pv, Default(fv0, Zero))), pmt)
  ELSE NPERByLog(NPERTempVarFV(rate, pmt, fv0, type0),
                 NPERTempVarPV(rate, pmt, pv, type0), FAdd(rate, One))

PMT(rate, nper, pv, fv0, type0) ==
  LET type == Default(type0, Zero)
      fv   == Default(fv0, Zero)
      tempVar  == IF ~StrictEq(type, Zero) THEN FAdd(One, rate) ELSE One
      tempVar2 == FAdd(rate, One)
      tempVar3 == MathPow(tempVar2, nper)
  IN  IF StrictEq(rate, Zero)
      THEN FDiv(FSub(FNeg(fv), pv), nper)
      ELSE FMul(FDiv(FSub(FNeg(fv), FMul(pv, tempVar3)),
                     FMul(tempVar, FSub(tempVar3, One))),
                rate)

FV(rate, nper, pmt, pv, type0) ==
  LET type == Default(type0, Zero)
      tempVar  == IF ~StrictEq(type, Zero) THEN FAdd(One, rate) ELSE One
      tempVar2 == FAdd(One, rate)
      tempVar3 == MathPow(tempVar2, nper)
  IN  IF StrictEq(rate, Zero)
      THEN FSub(FNeg(pv), FMul(pmt, nper))
      ELSE FSub(FMul(FNeg(pv), tempVar3),
                FMul(FMul(FDiv(pmt, rate), tempVar), FSub(tempVar3, One)))

\* a variant of IPMTInvalidPeriod that also refuses the last period
IPMTRefusesLast(per, nper) ==
  FLe(per, Zero) \/ FGe(per, nper)

\* IPMT's test of per
IPMTInvalidPeriod(per, nper) ==
  FLe(per, Zero) \/ FGe(per, FAdd(nper, One))

\* PPMT's test of per
PPMTInvalidPeriod(per, nper) ==
  FLe(per, Zero) \/ FGe(per, FAdd(nper, One))

IPMT(rate, per, nper, pv0, fv0, type0) ==
  LET type == Default(type0, Zero)
      fv   == Default(fv0, Zero)
      tempVar == IF ~StrictEq(type, Zero) THEN FromInt(2) ELSE One
      pmt == PMT(rate, nper, pv0, fv, type)
      pv  == IF ~StrictEq(type, Zero) THEN FAdd(pv0, pmt) ELSE pv0
      tempVarFV == FV(rate, FSub(per, tempVar), pmt, pv, Undefined)
  IN  IF IPMTInvalidPeriod(per, nper) THEN Str("Error - invalid Period")
      ELSE IF ~StrictEq(type, Zero) /\ StrictEq(per, One) THEN Zero
      ELSE FMul(tempVarFV, rate)

PPMT(rate, per, nper, pv, fv, type) ==
  LET pmt == PMT(rate, nper, pv, fv, type)
      tempVarIPMT == IPMT(rate, per, nper, pv, fv, type)
  IN  IF PPMTInvalidPeriod(per, nper) THEN Str("Error - invalid Period")
      ELSE FSub(pmt, tempVarIPMT)

\* the test EVALNPV makes of a value before it adds it
EVALNPVKeeps(npvType, tempVar2) ==
  \/ ~(FGt(npvType, Zero) /\ FGt(tempVar2, Zero))
  \/ ~(FLt(npvType, Zero) /\ FLt(tempVar2, Zero))

\* the body of the while loop of EVALNPV after tempVar is assigned: the
\* loop's variables lv with tempVar replaced and i not yet advanced
\* (values[i] of the code is values[i + 1] here)
EVALNPVBody(values, npvType, lv) ==
  [lv EXCEPT !.i = lv.i + 1,
             !.tempTotal = IF EVALNPVKeeps(npvType, values[lv.i + 1])
                           THEN FAdd(lv.tempTotal, FDiv(values[lv.i + 1], lv.tempVar))
                           ELSE lv.tempTotal]

RECURSIVE EVALNPVLoop(_, _, _, _, _)
\* the while loop of EVALNPV from the loop's variables lv
EVALNPVLoop(rate, values, npvType, upperBound, lv) ==
  IF lv.i > upperBound THEN lv.tempTotal
  ELSE EVALNPVLoop(rate, values, npvType, upperBound,
                   EVALNPVBody(values, npvType,
                               [lv EXCEPT !.tempVar =
                                            FAdd(lv.tempVar, FMul(lv.tempVar, rate))]))

\* a variant of EVALNPV whose discount factor is 1 at the first value
EVALNPVFromOne(rate, values, npvType, lowerBound, upperBound) ==
  EVALNPVLoop(rate, values, npvType, upperBound,
              [i |-> lowerBound, tempVar |-> FDiv(One, FAdd(One, rate)),
               tempTotal |-> Zero])

EVALNPV(rate, values, npvType, lowerBound, upperBound) ==
  EVALNPVLoop(rate, values, npvType, upperBound,
              [i |-> lowerBound, tempVar |-> One, tempTotal |-> Zero])

NPV(rate, values) ==
  LET lowerBound == 0
      upperBound == Len(values) - 1
      tempVar == upperBound - lowerBound + 1
  IN  IF tempVar < 1 THEN Str("Error - Invalid Values")
      ELSE IF StrictEq(rate, FromInt(-1)) THEN Str("Error - Invalid Rate")
      ELSE EVALNPV(rate, values, Zero, lowerBound, upperBound)

EVALRATE(rate, nper, pmt, pv, fv, type) ==
  LET tempVar3 == FAdd(rate, One)
      tempVar  == MathPow(tempVar3, nper)
      tempVar2 == IF ~StrictEq(type, Zero) THEN FAdd(One, rate) ELSE One
  IN  IF StrictEq(rate, Zero)
      THEN FAdd(FAdd(pv, FMul(pmt, nper)), fv)
      ELSE FAdd(FAdd(FMul(pv, tempVar),
                     FDiv(FMul(FMul(pmt, tempVar2), FSub(tempVar, One)), rate)),
                fv)

\* a variant of SkipZeros that skips nothing
SkipZerosNone(values, lowerBound, upperBound) == lowerBound

RECURSIVE SkipZeros(_, _, _)
\* the first while loop of InternalPV: the index of the first nonzero value
SkipZeros(values, lowerBound, upperBound) ==
  IF lowerBound <= upperBound /\ StrictEq(values[lowerBound + 1], Zero)
  THEN SkipZeros(values, lowerBound + 1, upperBound)
  ELSE lowerBound

RECURSIVE InternalPVLoop(_, _, _, _)
\* the second while loop of InternalPV from the loop's variables lv, down to
\* lowerBound
InternalPVLoop(values, divRate, lowerBound, lv) ==
  IF lv.i < lowerBound THEN lv.tempTotal
  ELSE InternalPVLoop(values, divRate, lowerBound,
                      [i |-> lv.i - 1,
                       tempTotal |-> FAdd(FDiv(lv.tempTotal, divRate),
                                          values[lv.i + 1])])

InternalPV(values, guess0) ==
  LET guess == Default(guess0, Dec(1, 1))
      upperBound == Len(values) - 1
      divRate == FAdd(One, guess)
  IN  InternalPVLoop(values, divRate, SkipZeros(values, 0, upperBound),
                     [i |-> upperBound, tempTotal |-> Zero])

(***************************************************************************)
(* The two solvers.  Their constants, and the pieces of their loop bodies. *)
(***************************************************************************)
epslMax == Dec(1, 7)

step == Dec(1, 5)

\* a variant of IRRiterMax that allows one more iteration
IRRiterMaxRaised == 39 + 1

\* iterMax of IRR
IRRiterMax == 39

\* a variant of RATEiterMax that allows one more iteration
RATEiterMaxRaised == 128 + 1

\* iterMax of RATE
RATEiterMax == 128

RECURSIVE MaxAbsLoop(_, _)
\* IRR's scan of values for the largest magnitude, from the loop's
\* variables lv
MaxAbsLoop(values, lv) ==
  IF lv.i >= Len(values) THEN lv.tempVar
  ELSE MaxAbsLoop(values,
                  [i |-> lv.i + 1,
                   tempVar |-> IF FGt(FAbs(values[lv.i + 1]), lv.tempVar)
                               THEN FAbs(values[lv.i + 1]) ELSE lv.tempVar])

NpvEpsl(values) ==
  LET tempVar == IF FGt(values[1], Zero) THEN values[1]
                 ELSE FMul(values[1], FromInt(-1))
  IN  FMul(FMul(MaxAbsLoop(values, [i |-> 0, tempVar |-> tempVar]), epslMax),
           Dec(1, 2))

\* a variant of IRRNudge that moves tempRate0 towards tempRate1
IRRNudgeTowards(rate0, rate1) ==
  IF FGt(rate1, rate0) THEN FAdd(rate0, step) ELSE FSub(rate0, step)

\* IRR's move of tempRate0 when the two residuals are equal
IRRNudge(rate0, rate1) ==
  IF FGt(rate1, rate0) THEN FSub(rate0, step) ELSE FAdd(rate0, step)

\* RATE's move of Rate0 when the two residuals are equal
RATENudge(rate0, rate1) ==
  IF FLt(rate0, rate1) THEN FSub(rate0, step)
  ELSE FSub(rate0, FMul(step, FromInt(-1)))

\* the secant update both solvers make
Secant(rate0, y0, rate1, y1) ==
  FSub(rate1, FDiv(FMul(FSub(rate1, rate0), y1), FSub(y1, y0)))

\* a variant of IRRConverged that takes either of the two for convergence
IRRConvergedEither(tempVar2, npvEpsl, tempVar) ==
  FLt(tempVar2, npvEpsl) \/ FLt(tempVar, epslMax)

\* IRR's checks of its inputs in the other order
IRRCheckValuesFirst(values, guess) ==
  IF Len(values) < 1 THEN Null
  ELSE IF FLe(guess, FromInt(-1)) THEN Str("Error - invalid guess")
  ELSE Undefined

\* IRR's checks of its inputs: what it returns from them, undefined when it
\* goes on
IRRCheck(values, guess) ==
  IF FLe(guess, FromInt(-1)) THEN Str("Error - invalid guess")
  ELSE IF Len(values) < 1 THEN Null
  ELSE Undefined

\* IRR's test for npv = 0 and rate convergence
IRRConverged(tempVar2, npvEpsl, tempVar) ==
  FLt(tempVar2, npvEpsl) /\ FLt(tempVar, epslMax)

(***************************************************************************)
(* The state: the call in progress or just returned (op, args, ret, pc),   *)
(* the variables IRR assigns without declaring them, which are therefore   *)
(* properties of the global object (tempNpvEpsl, tempRate0, tempNpv0), the *)
(* locals of IRR (tempRate1, tempNpv1) and of RATE (Rate0, Y0, Rate1, Y1), *)
(* the loop counter i of either, and the number of residual evaluations    *)
(* (calls of InternalPV or EVALRATE) the call has made.                    *)
(***************************************************************************)
VARIABLES pc, op, args, ret,
          tempNpvEpsl, tempRate0, tempNpv0,
          tempRate1, tempNpv1,
          Rate0, Y0, Rate1, Y1,
          i, evals

globals == <<tempNpvEpsl, tempRate0, tempNpv0>>

irrLocals == <<tempRate1, tempNpv1>>

rateLocals == <<Rate0, Y0, Rate1, Y1>>

vars == <<pc, op, args, ret, globals, irrLocals, rateLocals, i, evals>>

\* a name the global object does not have
Absent == [k |-> "absent", s |-> 0, m |-> <<>>, e |-> 0, t |-> ""]

NoArgs ==
  [rate |-> Undefined, per |-> Undefined, nper |-> Undefined,
   pmt |-> Undefined, pv |-> Undefined, fv |-> Undefined,
   type |-> Undefined, guess |-> Undefined, values |-> <<>>,
   npvType |-> Undefined]

Init ==
  /\ pc = "idle" /\ op = "" /\ args = NoArgs /\ ret = Undefined
  /\ tempNpvEpsl = Absent /\ tempRate0 = Absent /\ tempNpv0 = Absent
  /\ tempRate1 = Undefined /\ tempNpv1 = Undefined
  /\ Rate0 = Undefined /\ Y0 = Undefined
  /\ Rate1 = Undefined /\ Y1 = Undefined
  /\ i = 0 /\ evals = 0

(***************************************************************************)
(* The arguments the operations are called with.                           *)
(***************************************************************************)
MaxHalfPeriods == 8

MaxFlows == 3

Types == {Undefined, Zero, One}

Rates == {Zero, Dec(1, 1)}

Npers == {FromInt(2), Dec(25, 1), FromInt(3)}

\* periods in steps of one half, from -0.5
Periods == {Dec(5 * h, 1) : h \in -1 .. MaxHalfPeriods}

Amounts == {FromInt(-100), Zero, FromInt(100)}

RECURSIVE FlowsOfLen(_)
FlowsOfLen(n) ==
  IF n = 0 THEN {<<>>}
  ELSE {Append(f, v) : f \in FlowsOfLen(n - 1), v \in {FromInt(-100), FromInt(60)}}

Flows == UNION {FlowsOfLen(n) : n \in 0 .. MaxFlows}

F(n) == FromInt(n)

RECURSIVE FlowsWithZerosOfLen(_)
\* series that may begin with, or hold, values of 0
FlowsWithZerosOfLen(n) ==
  IF n = 0 THEN {<<>>}
  ELSE {Append(f, v) : f \in FlowsWithZerosOfLen(n - 1),
                       v \in {Zero, FromInt(-100), FromInt(60)}}

FlowsWithZeros == UNION {FlowsWithZerosOfLen(n) : n \in 0 .. MaxFlows}

\* <<values, guess>> for IRR
IRRInputs ==
  { <<<<F(-1500), F(500), F(500), F(500), F(500)>>, Undefined>>,
    <<<<F(1), F(-2), F(2)>>, Undefined>>,
    <<<<F(5)>>, Undefined>>,
    <<<<F(1500), F(500), F(500)>>, Dec(1, 1)>>,
    <<<<F(-10), F(1), F(1)>>, Zero>>,
    <<<<F(-100), F(50)>>, Dec(-999995, 6)>>,
    <<<<F(1)>>, Dec(-99999, 5)>>,
    <<<<F(-100), F(50), F(60)>>, F(-1)>>,
    <<<<>>, Undefined>>,
    <<<<>>, F(-1)>>,
    <<<<>>, F(-2)>> }

\* <<nper, pmt, pv, fv, type, guess>> for RATE
RATEInputs ==
  { <<F(3), F(-500), F(1200), Undefined, Undefined, Undefined>>,
    <<F(2), F(5), F(-1), F(-12), Zero, One>>,
    <<F(2), Zero, Zero, F(5), Undefined, Undefined>>,
    <<Zero, F(-500), F(1200), Undefined, Undefined, Undefined>>,
    <<F(-1), F(-500), F(1200), Undefined, Undefined, Undefined>> }

(***************************************************************************)
(* The operations that return at once.                                     *)
(***************************************************************************)
Finish(o, a, r) ==
  /\ pc' = "done" /\ op' = o /\ args' = a /\ ret' = r
  /\ evals' = 0
  /\ UNCHANGED <<globals, irrLocals, rateLocals, i>>

CallPV ==
  /\ pc = "idle"
  /\ \E rate \in Rates, nper \in Npers, fv \in {Undefined, F(1000)}, type \in Types :
       Finish("PV",
              [NoArgs EXCEPT !.rate = rate, !.nper = nper, !.pmt = F(-100),
                             !.fv = fv, !.type = type],
              PV(rate, nper, F(-100), fv, type))

CallNPER ==
  /\ pc = "idle"
  /\ \E rate \in Rates \cup {One}, pmt \in Amounts, pv \in Amounts,
        fv \in Amounts \cup {Undefined}, type \in {Undefined, One} :
       Finish("NPER",
              [NoArgs EXCEPT !.rate = rate, !.pmt = pmt, !.pv = pv,
                             !.fv = fv, !.type = type],
              NPER(rate, pmt, pv, fv, type))

CallPMT ==
  /\ pc = "idle"
  /\ \E rate \in Rates, nper \in Npers, fv \in {Undefined, F(-200)}, type \in Types :
       Finish("PMT",
              [NoArgs EXCEPT !.rate = rate, !.nper = nper, !.pv = F(1000),
                             !.fv = fv, !.type = type],
              PMT(rate, nper, F(1000), fv, type))

CallFV ==
  /\ pc = "idle"
  /\ \E rate \in Rates, nper \in Npers, pv \in {Undefined, F(1000)}, type \in Types :
       Finish("FV",
              [NoArgs EXCEPT !.rate = rate, !.nper = nper, !.pmt = F(-100),
                             !.pv = pv, !.type = type],
              FV(rate, nper, F(-100), pv, type))

CallIPMT ==
  /\ pc = "idle"
  /\ \E rate \in Rates, per \in Periods, nper \in Npers, type \in {Undefined, One} :
       Finish("IPMT",
              [NoArgs EXCEPT !.rate = rate, !.per = per, !.nper = nper,
                             !.pv = F(1000), !.type = type],
              IPMT(rate, per, nper, F(1000), Undefined, type))

CallPPMT ==
  /\ pc = "idle"
  /\ \E rate \in Rates, per \in Periods, nper \in Npers, type \in {Undefined, One} :
       Finish("PPMT",
              [NoArgs EXCEPT !.rate = rate, !.per = per, !.nper = nper,
                             !.pv = F(1000), !.type = type],
              PPMT(rate, per, nper, F(1000), Undefined, type))

CallNPV ==
  /\ pc = "idle"
  /\ \E rate \in {F(-1), Zero, Dec(1, 1), One}, values \in Flows :
       Finish("NPV", [NoArgs EXCEPT !.rate = rate, !.values = values],
              NPV(rate, values))

\* EVALNPV is a method of the prototype like the others; it is called here
\* as NPV calls it, over all of values, with each sign of npvType
CallEVALNPV ==
  /\ pc = "idle"
  /\ \E npvType \in {F(-1), Zero, One}, values \in Flows :
       Finish("EVALNPV",
              [NoArgs EXCEPT !.rate = Dec(1, 1), !.values = values,
                             !.npvType = npvType],
              EVALNPV(Dec(1, 1), values, npvType, 0, Len(values) - 1))

\* InternalPV, called on its own: with no guess, and with rates that include
\* -1, where it divides by 0
CallInternalPV ==
  /\ pc = "idle"
  /\ \E guess \in {Undefined, F(-1), Dec(-5, 1), Zero}, values \in FlowsWithZeros :
       Finish("InternalPV", [NoArgs EXCEPT !.values = values, !.guess = guess],
              InternalPV(values, guess))

(***************************************************************************)
(* IRR: the code before the loop, then per iteration the zero-slope block  *)
(* and the secant update, and the exit when the counter passes iterMax.    *)
(***************************************************************************)
CallIRR ==
  /\ pc = "idle"
  /\ \E in \in IRRInputs :
       LET values == in[1]
           guess  == Default(in[2], Dec(1, 1))
       IN  /\ op' = "IRR"
           /\ args' = [NoArgs EXCEPT !.values = values, !.guess = in[2]]
           /\ i' = 0
           /\ UNCHANGED rateLocals
           /\ IF IRRCheck(values, guess) # Undefined
              THEN /\ pc' = "done" /\ ret' = IRRCheck(values, guess)
                   /\ evals' = 0
                   /\ UNCHANGED <<globals, irrLocals>>
              ELSE LET npv0  == InternalPV(values, guess)
                       rate1 == IF FGt(npv0, Zero) THEN FAdd(guess, step)
                                ELSE FSub(guess, step)
                   IN  /\ tempNpvEpsl' = NpvEpsl(values)
                       /\ tempRate0' = guess
                       /\ tempNpv0' = npv0
                       /\ tempRate1' = rate1
                       /\ IF FLe(rate1, F(-1))
                          THEN /\ pc' = "done"
                               /\ ret' = Str("Error - invalid values")
                               /\ tempNpv1' = Undefined
                               /\ evals' = 1
                          ELSE /\ pc' = "irr_loop"
                               /\ ret' = Undefined
                               /\ tempNpv1' = InternalPV(values, rate1)
                               /\ evals' = 2

IRRZeroSlope ==
  /\ pc = "irr_loop"
  /\ i <= IRRiterMax
  /\ IF StrictEq(tempNpv1, tempNpv0)
     THEN LET rate0 == IRRNudge(tempRate0, tempRate1)
              npv0  == InternalPV(args.values, rate0)
          IN  /\ tempRate0' = rate0
              /\ tempNpv0' = npv0
              /\ evals' = evals + 1
              /\ IF StrictEq(tempNpv1, npv0)
                 THEN pc' = "done" /\ ret' = Str("Error - invalid values")
                 ELSE pc' = "irr_secant" /\ ret' = ret
              /\ UNCHANGED <<tempNpvEpsl, irrLocals>>
     ELSE /\ pc' = "irr_secant"
          /\ UNCHANGED <<ret, globals, irrLocals, evals>>
  /\ UNCHANGED <<op, args, rateLocals, i>>

IRRSecant ==
  /\ pc = "irr_secant"
  /\ LET rateS == Secant(tempRate0, tempNpv0, tempRate1, tempNpv1)
         rate0 == IF FLe(rateS, F(-1)) THEN FMul(FSub(tempRate1, One), Dec(5, 1))
                  ELSE rateS
         npv0  == InternalPV(args.values, rate0)
         tempVar  == IF FGt(rate0, tempRate1) THEN FSub(rate0, tempRate1)
                     ELSE FSub(tempRate1, rate0)
         tempVar2 == IF FGt(npv0, Zero) THEN npv0 ELSE FMul(npv0, F(-1))
     IN  /\ evals' = evals + 1
         /\ IF IRRConverged(tempVar2, tempNpvEpsl, tempVar)
            THEN /\ pc' = "done" /\ ret' = rate0
                 /\ tempRate0' = rate0 /\ tempNpv0' = npv0
                 /\ UNCHANGED <<irrLocals, i>>
            ELSE /\ pc' = "irr_loop" /\ ret' = ret
                 /\ tempNpv0' = tempNpv1 /\ tempNpv1' = npv0
                 /\ tempRate0' = tempRate1 /\ tempRate1' = rate0
                 /\ i' = i + 1
  /\ UNCHANGED <<op, args, tempNpvEpsl, rateLocals>>

IRRExceeded ==
  /\ pc = "irr_loop"
  /\ ~(i <= IRRiterMax)
  /\ pc' = "done" /\ ret' = Str("Error - iterMax exceeded")
  /\ UNCHANGED <<op, args, globals, irrLocals, rateLocals, i, evals>>

(***************************************************************************)
(* RATE, in the same pieces.                                               *)
(***************************************************************************)
CallRATE ==
  /\ pc = "idle"
  /\ \E in \in RATEInputs :
       LET nper  == in[1]
           pmt   == in[2]
           pv    == in[3]
           fv    == Default(in[4], Zero)
           type  == Default(in[5], Zero)
           guess == Default(in[6], Dec(1, 1))
           y0    == EVALRATE(guess, nper, pmt, pv, fv, type)
           rate1 == IF FGt(y0, Zero) THEN FDiv(guess, F(2)) ELSE FMul(guess, F(2))
       IN  /\ op' = "RATE"
           /\ args' = [NoArgs EXCEPT !.nper = nper, !.pmt = pmt, !.pv = pv,
                                     !.fv = in[4], !.type = in[5], !.guess = in[6]]
           /\ i' = 0
           /\ UNCHANGED <<globals, irrLocals>>
           /\ IF FLe(nper, Zero)
              THEN /\ pc' = "done" /\ ret' = Str("Error - invalid Period")
                   /\ evals' = 0
                   /\ UNCHANGED rateLocals
              ELSE /\ pc' = "rate_loop" /\ ret' = Undefined
                   /\ Rate0' = guess /\ Y0' = y0
                   /\ Rate1' = rate1
                   /\ Y1' = EVALRATE(rate1, nper, pmt, pv, fv, type)
                   /\ evals' = 2

\* the residual of the RATE call in progress at a rate
RateResidual(rate) ==
  EVALRATE(rate, args.nper, args.pmt, args.pv,
           Default(args.fv, Zero), Default(args.type, Zero))

RATEZeroSlope ==
  /\ pc = "rate_loop"
  /\ i < RATEiterMax
  /\ LET nudge == StrictEq(Y1, Y0)
         rate0 == IF nudge THEN RATENudge(Rate0, Rate1) ELSE Rate0
         y0    == IF nudge THEN RateResidual(rate0) ELSE Y0
     IN  /\ Rate0' = rate0 /\ Y0' = y0
         /\ evals' = IF nudge THEN evals + 1 ELSE evals
         /\ IF StrictEq(Y1, y0)
            THEN pc' = "done" /\ ret' = Str("#NUM!")
            ELSE pc' = "rate_secant" /\ ret' = ret
  /\ UNCHANGED <<op, args, globals, irrLocals, Rate1, Y1, i>>

RATESecant ==
  /\ pc = "rate_secant"
  /\ LET rate0 == Secant(Rate0, Y0, Rate1, Y1)
         y0    == RateResidual(rate0)
     IN  /\ evals' = evals + 1
         /\ IF FLt(FAbs(y0), epslMax)
            THEN /\ pc' = "done" /\ ret' = rate0
                 /\ Rate0' = rate0 /\ Y0' = y0
                 /\ UNCHANGED <<Rate1, Y1, i>>
            ELSE /\ pc' = "rate_loop" /\ ret' = ret
                 /\ Y0' = Y1 /\ Y1' = y0
                 /\ Rate0' = Rate1 /\ Rate1' = rate0
                 /\ i' = i + 1
  /\ UNCHANGED <<op, args, globals, irrLocals>>

RATEFallsOff ==
  /\ pc = "rate_loop"
  /\ ~(i < RATEiterMax)
  /\ pc' = "done" /\ ret' = Undefined
  /\ UNCHANGED <<op, args, globals, irrLocals, rateLocals, i, evals>>

(***************************************************************************)
(* The caller takes the result; the locals of the call are gone, what was  *)
(* written to the global object stays.                                     *)
(***************************************************************************)
Return ==
  /\ pc = "done"
  /\ pc' = "idle" /\ op' = "" /\ args' = NoArgs /\ ret' = Undefined
  /\ tempRate1' = Undefined /\ tempNpv1' = Undefined
  /\ Rate0' = Undefined /\ Y0' = Undefined
  /\ Rate1' = Undefined /\ Y1' = Undefined
  /\ i' = 0 /\ evals' = 0
  /\ UNCHANGED globals

Next ==
  \/ CallPV \/ CallNPER \/ CallPMT \/ CallFV \/ CallIPMT \/ CallPPMT
  \/ CallNPV \/ CallEVALNPV \/ CallInternalPV
  \/ CallIRR \/ IRRZeroSlope \/ IRRSecant \/ IRRExceeded
  \/ CallRATE \/ RATEZeroSlope \/ RATESecant \/ RATEFallsOff
  \/ Return

Spec == Init /\ [][Next]_vars

(***************************************************************************)
(* Properties of the calls.  A call has returned when pc = "done"; op,     *)
(* args and ret are then its name, its arguments and its result.           *)
(***************************************************************************)
Returned(o) == pc = "done" /\ op = o

\* C1: IPMT and PPMT return the invalid-period error exactly when per <= 0
\* or per > nper, for every numeric per and nper, integer or not.
C1_ErrorIffBeyondNper ==
  (Returned("IPMT") \/ Returned("PPMT")) =>
     ((ret = Str("Error - invalid Period"))
        <=> (FLe(args.per, Zero) \/ FGt(args.per, args.nper)))

\* A and B of NPER: tempVarFV and tempVarPV of the call that has returned
NPERA == NPERTempVarFV(args.rate, args.pmt, args.fv, args.type)

NPERB == NPERTempVarPV(args.rate, args.pmt, args.pv, args.type)

\* C2, as the code has it: NPER returns an error exactly when rate = 0 and
\* pmt = 0, or when rate # 0 and A and B are not both negative and at least
\* one of them is at most 0 (both 0, or one 0 and the other negative,
\* included); in every other case it returns a number.
C2_NPERErrorCases ==
  Returned("NPER") =>
     /\ IsString(ret) <=>
          IF StrictEq(args.rate, Zero) THEN StrictEq(args.pmt, Zero)
          ELSE /\ ~(FLt(NPERA, Zero) /\ FLt(NPERB, Zero))
               /\ (FLe(NPERA, Zero) \/ FLe(NPERB, Zero))
     /\ ~IsString(ret) => IsNumber(ret)

\* C2 witness: NPER has returned an error for a rate other than 0 with A
\* and B both 0.
C2_BothZeroRefused ==
  /\ Returned("NPER") /\ ~StrictEq(args.rate, Zero)
  /\ NPERA = Zero /\ NPERB = Zero
  /\ ret = Str("Error - Cannot Calculate NPER")

\* C2 as stated: NPER returns an error exactly when rate = 0 and pmt = 0, or
\* when rate # 0 and exactly one of A and B is at most 0.
C2_ErrorIffExactlyOne ==
  Returned("NPER") =>
     (IsString(ret) <=>
        IF StrictEq(args.rate, Zero) THEN StrictEq(args.pmt, Zero)
        ELSE FLe(NPERA, Zero) # FLe(NPERB, Zero))

\* the guess IRR works with
IRRGuess == Default(args.guess, Dec(1, 1))

C5_IRRBounded ==
  op = "IRR" =>
     /\ i <= 40
     /\ pc = "irr_secant" => i < 40
     /\ (pc = "done" /\ i = 40) => ret = Str("Error - iterMax exceeded")

\* C5 witness: IRR has returned the iteration-limit error after 40
\* iterations.
C5_IRRExceeded ==
  /\ Returned("IRR") /\ i = 40 /\ evals = 2 + 40
  /\ ret = Str("Error - iterMax exceeded")

\* the largest magnitude among the values of the call
MaxMagnitude ==
  CHOOSE m \in {FAbs(args.values[n]) : n \in 1 .. Len(args.values)} :
     \A n \in 1 .. Len(args.values) : FLe(FAbs(args.values[n]), m)

\* C6: whenever IRR returns a number r, the last secant step moved the rate
\* by less than 1e-7 and |InternalPV(values, r)| is less than the largest
\* |values[i]| * 1e-7 * 0.01.
C6_BothConditions ==
  (Returned("IRR") /\ IsNumber(ret)) =>
     /\ ret = tempRate0
     /\ FLt(FAbs(FSub(tempRate0, tempRate1)), Dec(1, 7))
     /\ FLt(FAbs(InternalPV(args.values, ret)),
            FMul(FMul(MaxMagnitude, Dec(1, 7)), Dec(1, 2)))

\* C6 witness: IRR has returned a number, in its fourth iteration.
C6_IRRConverges ==
  Returned("IRR") /\ ret.k = "fin" /\ i = 3 /\ Len(args.values) = 5

\* C7: no call writes a variable that survives it: between the calls the
\* global object has none of the names tempNpvEpsl, tempRate0, tempNpv0.
C7_NoSharedState ==
  pc = "idle" => tempNpvEpsl = Absent /\ tempRate0 = Absent /\ tempNpv0 = Absent

RECURSIVE DiscountedSum(_, _, _)
\* the sum over j = 1 .. n of values[j] / (1 + rate)^j
DiscountedSum(rate, values, n) ==
  IF n = 0 THEN Zero
  ELSE FAdd(DiscountedSum(rate, values, n - 1),
            FDiv(values[n], PowInt(FAdd(One, rate), n)))

\* C8: for at least one value and rate # -1, NPV is the sum over j = 1 .. N
\* of v_j / (1 + rate)^j, whatever the signs of the values: the two agree to
\* 1e-9, being rounded differently.
C8_NPVDiscountsFromOne ==
  (Returned("NPV") /\ Len(args.values) >= 1 /\ ~StrictEq(args.rate, FromInt(-1))) =>
     /\ ret.k = "fin"
     /\ FLe(FAbs(FSub(ret, DiscountedSum(args.rate, args.values, Len(args.values)))),
            Dec(1, 9))

\* C8 witness: NPV has returned the value of three flows of both signs at a
\* rate of 0.1.
C8_NPVOfMixedFlows ==
  /\ Returned("NPV") /\ args.rate = Dec(1, 1) /\ Len(args.values) = 3
  /\ args.values[1].s = -1 /\ args.values[3].s = 1
  /\ ret.k = "fin" /\ ret.s # 0

\* PMT and IPMT of the arguments of the call
PMTOfArgs == PMT(args.rate, args.nper, args.pv, args.fv, args.type)

IPMTOfArgs == IPMT(args.rate, args.per, args.nper, args.pv, args.fv, args.type)

\* C9: for 0 < per <= nper and either type, PPMT returns the number
\* PMT - IPMT of the same arguments, IPMT is no error string there, and
\* IPMT + PPMT is PMT (to 1e-8, where the three are computed).
C9_PPMTDecomposes ==
  (Returned("PPMT") /\ FGt(args.per, Zero) /\ FLe(args.per, args.nper)) =>
     /\ ret.k \in {"fin", "num"}
     /\ ~IsString(IPMTOfArgs)
     /\ ret = FSub(PMTOfArgs, IPMTOfArgs)
     /\ ret.k = "fin" =>
          FLe(FAbs(FSub(FAdd(IPMTOfArgs, ret), PMTOfArgs)), Dec(1, 8))

\* C9 witness: PPMT has returned a computed number for the first period of
\* payments due at the beginning of the period, at a rate other than 0.
C9_FirstAdvancePayment ==
  /\ Returned("PPMT") /\ args.type = One /\ args.per = One
  /\ args.rate = Dec(1, 1) /\ ret.k = "fin" /\ IPMTOfArgs = Zero

\* what IRR does in an iteration that starts with equal residuals
C10_IRRStep ==
  (pc = "irr_loop" /\ i <= 39 /\ StrictEq(tempNpv1, tempNpv0)) =>
     /\ tempRate0' = IF FGt(tempRate1, tempRate0)
                      THEN FSub(tempRate0, Dec(1, 5))
                      ELSE FAdd(tempRate0, Dec(1, 5))
     /\ FGe(FAbs(FSub(tempRate0', tempRate1)), FAbs(FSub(tempRate0, tempRate1)))
     /\ tempNpv0' = InternalPV(args.values, tempRate0')
     /\ evals' = evals + 1
     /\ IF StrictEq(tempNpv1, tempNpv0')
        THEN pc' = "done" /\ ret' = Str("Error - invalid values")
        ELSE pc' = "irr_secant"

\* what RATE does in an iteration that starts with equal residuals
C10_RATEStep ==
  (pc = "rate_loop" /\ i < 128 /\ StrictEq(Y1, Y0)) =>
     /\ Rate0' = IF FGt(Rate1, Rate0)
                  THEN FSub(Rate0, Dec(1, 5))
                  ELSE FAdd(Rate0, Dec(1, 5))
     /\ FGe(FAbs(FSub(Rate0', Rate1)), FAbs(FSub(Rate0, Rate1)))
     /\ Y0' = RateResidual(Rate0')
     /\ evals' = evals + 1
     /\ IF StrictEq(Y1, Y0')
        THEN pc' = "done" /\ ret' = Str("#NUM!")
        ELSE pc' = "rate_secant"

\* C10: RATE and IRR come to their secant update only with residuals that
\* differ; an iteration that starts with equal residuals moves Rate0 once by
\* the step 1e-5, down when Rate1 is above it and up otherwise, so never
\* towards Rate1 (a Rate0 so large that the step is lost in rounding
\* stays), and evaluates its residual again, and returns an error ("#NUM!"
\* in RATE, invalid values in IRR) when the residuals are still equal.
C10_ZeroSlope ==
  [][/\ pc' = "irr_secant" => ~StrictEq(tempNpv1', tempNpv0')
     /\ pc' = "rate_secant" => ~StrictEq(Y1', Y0')
     /\ C10_IRRStep
     /\ C10_RATEStep]_vars

\* C10 witness: RATE is at its secant update after one move of Rate0 that
\* made the residuals differ.
C10_RATERecovered ==
  op = "RATE" /\ pc = "rate_secant" /\ evals = 2 + i + 1

\* whether the sign filter npvType, as it is described, leaves a value out
C11_LeftOut(npvType, v) ==
  \/ FGt(npvType, Zero) /\ FGt(v, Zero)
  \/ FLt(npvType, Zero) /\ FLt(v, Zero)

\* the values with 0 in the place of those the sign filter would leave out
C11_Filtered(npvType, values) ==
  [n \in 1 .. Len(values) |->
     IF C11_LeftOut(npvType, values[n]) THEN Zero ELSE values[n]]

\* C11: EVALNPV leaves the positive values out of its sum when npvType > 0
\* and the negative values when npvType < 0, and includes every value when
\* npvType = 0: its result is the discounted sum of the values that are not
\* left out (to 1e-9).
C11_SignFilterExcludes ==
  Returned("EVALNPV") =>
     FLe(FAbs(FSub(ret, DiscountedSum(args.rate, C11_Filtered(args.npvType, args.values),
                                      Len(args.values)))),
         Dec(1, 9))

\* what EVALNPV does: whatever npvType is, its result is the discounted sum
\* of all the values (to 1e-9), the one NPV returns for them.
C11_NothingExcluded ==
  Returned("EVALNPV") =>
     /\ FLe(FAbs(FSub(ret, DiscountedSum(args.rate, args.values, Len(args.values)))),
            Dec(1, 9))
     /\ ret = EVALNPV(args.rate, args.values, Zero, 0, Len(args.values) - 1)

\* EVALNPV has returned, for npvType > 0, a sum that includes a positive
\* value.
C11_PositiveIncluded ==
  /\ Returned("EVALNPV") /\ FGt(args.npvType, Zero)
  /\ args.values = <<F(60)>> /\ FGt(ret, F(50))

\* the place in values (from 1) of the first value other than 0, and
\* Len(values) + 1 when there is none
C12_FirstNonzero(values) ==
  1 + Cardinality({n \in 1 .. Len(values) :
                     \A j \in 1 .. n : StrictEq(values[j], Zero)})

RECURSIVE C12_AnchoredSum(_, _, _, _)
\* the sum over t = 0 .. n of values[k + t] / (1 + rate)^t, k counted from 1
C12_AnchoredSum(rate, values, k, n) ==
  IF n < 0 THEN Zero
  ELSE FAdd(C12_AnchoredSum(rate, values, k, n - 1),
            FDiv(values[k + n], PowInt(FAdd(One, rate), n)))

\* the rate InternalPV works with in the call that has returned
C12_Rate == Default(args.guess, Dec(1, 1))

\* C12: for rate # -1, InternalPV(values, rate) is the sum over t >= 0 of
\* values[k + t] / (1 + rate)^t with k the place of the first value other
\* than 0 (to 1e-9, the two being rounded differently), so the values of 0
\* at the head are skipped and the first other value is not discounted; for
\* values that are empty or all 0 it is 0.
C12_AnchoredAtFirstNonzero ==
  (Returned("InternalPV") /\ ~StrictEq(C12_Rate, F(-1))) =>
     LET k == C12_FirstNonzero(args.values)
     IN  /\ ret.k = "fin"
         /\ FLe(FAbs(FSub(ret, C12_AnchoredSum(C12_Rate, args.values, k,
                                               Len(args.values) - k))),
                Dec(1, 9))
         /\ k > Len(args.values) => ret = Zero

\* C12 witness: InternalPV has returned -100 + 60 / 1.1 for 0, -100, 60 at
\* the rate it takes when it is given none.
C12_LeadingZeroSkipped ==
  /\ Returned("InternalPV") /\ args.guess = Undefined
  /\ args.values = <<Zero, F(-100), F(60)>>
  /\ FGt(ret, Dec(-4546, 2)) /\ FLt(ret, Dec(-4545, 2))

\* C13: at the start of every iteration of the loop of IRR both trial rates
\* are greater than -1, and every number IRR returns is greater than -1.
C13_RatesAboveMinusOne ==
  /\ (op = "IRR" /\ pc = "irr_loop" /\ i <= 39) =>
        FGt(tempRate0, F(-1)) /\ FGt(tempRate1, F(-1))
  /\ (Returned("IRR") /\ IsNumber(ret)) => FGt(ret, F(-1))

\* the part of C13 that the code keeps: both trial rates are greater than -1
\* at the start of the first iteration, and every number IRR returns is
\* greater than -1.
C13_ReturnedAboveMinusOne ==
  /\ (op = "IRR" /\ pc = "irr_loop" /\ i = 0) =>
        FGt(tempRate0, F(-1)) /\ FGt(tempRate1, F(-1))
  /\ (Returned("IRR") /\ IsNumber(ret)) => FGt(ret, F(-1))

\* IRR starts its second iteration with a trial rate that is NaN, after it
\* has evaluated InternalPV at the rate -1.
C13_RateIsNaN ==
  /\ op = "IRR" /\ pc = "irr_loop" /\ i = 1
  /\ args.values = <<F(1)>> /\ tempRate1 = NaN /\ tempNpv1 = NaN

=============================================================================
